---- MODULE Spec2Model ----
(***************************************************************************)
(* A model of chinese_segmenter.py: the pure-Chinese token filter, the     *)
(* extraction of a deduplicated word set from a file's content, the        *)
(* collision-free output path, and the control flow of main() in           *)
(* single-file, merged-directory and separate-directory mode.              *)
(*                                                                         *)
(* A string of the program is a sequence of code points.  A path inside    *)
(* the output directory is a TLA+ string built as the f-strings build it.  *)
(***************************************************************************)
EXTENDS Integers, Sequences, FiniteSets, TLC

VARIABLES
  out_dir,            \* the output directory: "absent", "present", "readonly", "blocked"
  out_files,          \* the files of the output directory: path -> content
  pools,              \* run number -> the contents an input file may hold then
  runs_left,          \* invocations of main() still to come (the environment)
  pc,                 \* where main() is
  path_kind,          \* args.path: "none" yet, "missing", "file", "dir", "other"
  mode,               \* "none", "single", "merged", "separate"
  text_files,         \* process_directory: the discovered files
  todo,               \* the part of text_files the for loop has not reached
  cur,                \* process_file: file_path
  unique_words,       \* process_file: unique_words
  base_name,          \* the stem the output path is built from
  output_path,        \* the path being probed or written
  counter,            \* the suffix counter of the probing loop
  all_unique_words,   \* process_directory_merged: all_unique_words
  successful_files,   \* process_directory_merged: successful_files
  results,            \* the result tuples returned so far
  exit_code,          \* -1 while main() runs, then the process's exit status
  raised_at,          \* "none", or the call an exception escaped from
  before,             \* history: out_files when this run of main() began
  per_file,           \* history: file -> the word set extracted from it alone
  out_of,             \* history: file -> the output path process_file wrote for it
  cur_kind,           \* history: what the last file read held
  token,              \* filter check: the token handed to is_chinese_word
  verdict             \* filter check: "none", "accepted", "rejected"

vars == << out_dir, out_files, pools, runs_left, pc, path_kind, mode, text_files,
           todo, cur, unique_words, base_name, output_path, counter,
           all_unique_words, successful_files, results, exit_code, raised_at,
           before, per_file, out_of, cur_kind, token, verdict >>

(***************************************************************************)
(* Bounds of the model.                                                    *)
(***************************************************************************)
MaxTokenLen == 2      \* longest token handed to the filter on its own
MaxRuns == 2          \* most successive invocations of main()

(***************************************************************************)
(* The character class of chinese_pattern (line 29).                       *)
(***************************************************************************)
CJK_LO == 19968       \* 一
CJK_HI == 40959       \* 鿿
EXTA_LO == 13312      \* 㐀
EXTA_HI == 19903      \* 䶿
EXTB_LO == 131072     \* \U00020000
EXTB_HI == 173791     \* \U0002a6df

InClass(c) ==
  \/ (CJK_LO <= c /\ c <= CJK_HI)
  \/ (EXTA_LO <= c /\ c <= EXTA_HI)
  \/ (EXTB_LO <= c /\ c <= EXTB_HI)

\* re.match with ^[class]+$ : the class repeated from the start of the word up
\* to its end, where $ also matches just before a newline that ends the word.
is_chinese_word(word) ==
  LET n == Len(word) IN
    \/ (n >= 1 /\ \A i \in 1..n : InClass(word[i]))
    \/ (n >= 2 /\ word[n] = 10 /\ \A i \in 1..(n - 1) : InClass(word[i]))

\* str.isspace(), which decides what str.strip() removes.
IsSpace(c) ==
  \/ c \in 9..13
  \/ c \in 28..32
  \/ c \in {133, 160, 5760, 8232, 8233, 8239, 8287, 12288}
  \/ c \in 8192..8202

SetMin(S) == CHOOSE x \in S : \A y \in S : x <= y
SetMax(S) == CHOOSE x \in S : \A y \in S : x >= y

strip(s) ==
  LET keep == {i \in 1..Len(s) : ~IsSpace(s[i])} IN
    IF keep = {} THEN << >> ELSE SubSeq(s, SetMin(keep), SetMax(keep))

\* jieba.cut(content): the segmenter is an external library; all the program
\* relies on is that it yields the content cut into consecutive tokens.
RECURSIVE Cuts(_)
Cuts(s) ==
  IF s = << >> THEN {<< >>}
  ELSE UNION {{<<SubSeq(s, 1, k)>> \o rest : rest \in Cuts(SubSeq(s, k + 1, Len(s)))}
              : k \in 1..Len(s)}

\* extract_chinese_words(content), with words the tokens jieba.cut yields.
extract_chinese_words(content, words) ==
  IF content = << >> THEN {}
  ELSE {w \in {strip(words[i]) : i \in 1..Len(words)} : w /= << >> /\ is_chinese_word(w)}

\* Comparison of two strings as Python compares them: by code point, a proper
\* prefix first.
StrLess(u, v) ==
  \/ (Len(u) < Len(v) /\ SubSeq(v, 1, Len(u)) = u)
  \/ \E i \in 1..Len(u) :
       /\ i <= Len(v)
       /\ SubSeq(u, 1, i - 1) = SubSeq(v, 1, i - 1)
       /\ u[i] < v[i]

ShortestFirst(u, v) ==
  \/ Len(u) < Len(v)
  \/ (Len(u) = Len(v) /\ StrLess(u, v))

Before(u, v) == StrLess(u, v)

RECURSIVE sorted(_)
sorted(S) ==
  IF S = {} THEN << >>
  ELSE LET m == CHOOSE u \in S : \A v \in S \ {u} : Before(u, v)
       IN  <<m>> \o sorted(S \ {m})

\* The text the write loop produces: each word followed by a line feed.
RECURSIVE Joined(_)
Joined(ws) ==
  IF ws = << >> THEN << >> ELSE Head(ws) \o <<10>> \o Joined(Tail(ws))

WrittenText(word_set) == Joined(sorted(word_set))

(***************************************************************************)
(* Paths.                                                                  *)
(***************************************************************************)
Digit == <<"0", "1", "2", "3", "4", "5", "6", "7", "8", "9">>

\* str(counter) inside the f-strings: the decimal digits.
RECURSIVE str(_)
str(n) == IF n < 10 THEN Digit[n + 1] ELSE str(n \div 10) \o Digit[(n % 10) + 1]

SkipsOne(base, n) == base \o "_segmented_" \o str(n + 1) \o ".txt"

\* get_unique_output_path, line 47 and line 52.
FirstCandidate(base) == base \o "_segmented" \o ".txt"
NumberedCandidate(base, n) == base \o "_segmented_" \o str(n) \o ".txt"

\* process_directory_merged, lines 207-208 and line 213.
MergedFirst(dir) == dir \o "_merged_segmented.txt"
MergedNumbered(dir, n) == dir \o "_merged_segmented_" \o str(n) \o ".txt"

NeverExists(path) == FALSE
ExistedAtStart(path) == path \in DOMAIN before

\* The while test of both probing loops: output_path.exists().
exists(path) == path \in DOMAIN out_files

(***************************************************************************)
(* The input side: the files an input directory d may hold, and what a     *)
(* file may contain.                                                       *)
(***************************************************************************)
dir_name == "d"

InputFiles ==
  { [sub |-> FALSE, stem |-> "a",        ext |-> ".txt"],
    [sub |-> FALSE, stem |-> "a",        ext |-> ".md"],
    [sub |-> TRUE,  stem |-> "a",        ext |-> ".txt"],
    [sub |-> FALSE, stem |-> "a",        ext |-> ".py"] }

NoFile == [sub |-> FALSE, stem |-> "", ext |-> ""]

extensions == {".txt", ".md", ".csv", ".json", ".xml", ".html", ".htm"}

\* process_directory, lines 133-141: the glob per extension, recursive or not.
Discover(listing, recursive) ==
  {f \in listing : f.ext \in extensions /\ (recursive \/ ~f.sub)}

Text(t) == [st |-> "text", text |-> t]
Unreadable == [st |-> "unreadable", text |-> << >>]
Undecodable == [st |-> "undecodable", text |-> << >>]

\* 27979 测, 30002 甲, 20057 乙, 97 a, 32 space, 10 line feed.
RichPool ==
  { Unreadable, Undecodable,
    Text(<< >>), Text(<<32, 10>>), Text(<<97, 27979>>),
    Text(<<27979, 10, 30002>>), Text(<<32, 20057, 32, 27979>>),
    Text(<<27979, 27979>>) }

\* Run r of several: a file is blank, or holds the one word made of the r-th
\* character after 一, so that no two runs write the same text.
RunPool(r) == { Text(<<10>>), Text(<<CJK_LO + r>>) }

\* The contents a file may hold in the run that is under way.
pool == pools[runs_left + 1]

EmptyFn == [x \in {} |-> 0]

\* History only: what the file just read held.
Classify(v, found) ==
  IF v.st /= "text" THEN v.st
  ELSE IF strip(v.text) = << >> THEN "empty"
  ELSE IF found = {} THEN "no_words"
  ELSE "ok"

PreExisting == <<97, 10>>

(***************************************************************************)
(* main() and what it calls.                                               *)
(***************************************************************************)
AlwaysZero(res) == 0

\* main(), lines 327-328 and 345-358: exit 1 when nothing came back.
exit_status(res) == IF res = << >> THEN 1 ELSE 0

NeverNothing(words) == FALSE

\* Lines 93 and 182: "if not unique_words".
nothing_extracted(words) == words = {}

Overwrite(all, words) == words

\* Line 187: all_unique_words.update(unique_words).
update(all, words) == all \cup words

StopOnFailure(left, f, failed) == IF failed THEN {} ELSE left \ {f}

\* Lines 169 and 242: the for loop moves on to the next file, whether the body
\* ran to its end, hit "continue" or caught an exception.
rest_after(left, f, failed) == left \ {f}

\* A fresh invocation of main(): argparse has run, nothing is processed yet.
StartRun(kind) ==
  /\ pc \in {"start", "exited"}
  /\ runs_left > 0
  /\ runs_left' = runs_left - 1
  /\ path_kind' = kind
  /\ before' = out_files
  /\ per_file' = EmptyFn
  /\ out_of' = EmptyFn
  /\ cur_kind' = "none"
  /\ results' = << >>
  /\ all_unique_words' = {}
  /\ successful_files' = 0
  /\ unique_words' = {}
  /\ base_name' = ""
  /\ output_path' = ""
  /\ counter' = 0
  /\ UNCHANGED << out_files, pools, token, verdict >>

\* Lines 315-317: the path does not exist.
MainMissing ==
  /\ StartRun("missing")
  /\ pc' = "exited" /\ exit_code' = 1 /\ raised_at' = "none"
  /\ mode' = "none" /\ cur' = NoFile /\ text_files' = {} /\ todo' = {}
  /\ UNCHANGED out_dir

\* Lines 359-361: the path exists and is neither a file nor a directory.
MainOther ==
  /\ StartRun("other")
  /\ pc' = "exited" /\ exit_code' = 1 /\ raised_at' = "none"
  /\ mode' = "none" /\ cur' = NoFile /\ text_files' = {} /\ todo' = {}
  /\ UNCHANGED out_dir

\* Lines 323-326: a single file, handed to process_file.
MainFile ==
  \E f \in InputFiles :
    /\ StartRun("file")
    /\ pc' = "process_file" /\ exit_code' = -1 /\ raised_at' = "none"
    /\ mode' = "single" /\ cur' = f /\ text_files' = {} /\ todo' = {}
    /\ UNCHANGED out_dir

\* Lines 330-343 and process_directory (lines 126-157): discovery, the output
\* directory, and the choice of the mode.  ensure_output_dir stands outside any
\* try block here.
MainDir ==
  \E listing \in SUBSET InputFiles, recursive \in BOOLEAN, no_merge \in BOOLEAN :
    LET found == Discover(listing, recursive) IN
    /\ StartRun("dir")
    /\ mode' = IF no_merge THEN "separate" ELSE "merged"
    /\ cur' = NoFile
    /\ IF found = {}
       THEN /\ pc' = "exited" /\ exit_code' = 1 /\ raised_at' = "none"
            /\ text_files' = {} /\ todo' = {}
            /\ UNCHANGED out_dir
       ELSE IF out_dir = "blocked"
       THEN /\ pc' = "exited" /\ exit_code' = 1
            /\ raised_at' = "ensure_output_dir"
            /\ text_files' = found /\ todo' = found
            /\ UNCHANGED out_dir
       ELSE /\ pc' = IF no_merge THEN "separate_loop" ELSE "merged_loop"
            /\ exit_code' = -1 /\ raised_at' = "none"
            /\ text_files' = found /\ todo' = found
            /\ out_dir' = IF out_dir = "absent" THEN "present" ELSE out_dir

\* What the caller of process_file does with its result: main() exits on it
\* (lines 326-328), process_directory_separate collects it (lines 248-251).
Return(res) ==
  IF mode = "single"
  THEN /\ pc' = "exited"
       /\ results' = res
       /\ exit_code' = exit_status(res)
  ELSE /\ pc' = "separate_loop"
       /\ results' = results \o res
       /\ exit_code' = -1

\* process_file, lines 81-102, with the except clauses of lines 114-119: read,
\* strip, extract, make the output directory, start probing.
ProcessFileRead ==
  /\ pc = "process_file"
  /\ \E v \in pool :
       LET content == strip(v.text) IN
       \E words \in Cuts(content) :
         LET found == IF v.st = "text" THEN extract_chinese_words(content, words) ELSE {}
             failed == v.st /= "text" \/ content = << >> \/ nothing_extracted(found)
         IN
         /\ cur_kind' = Classify(v, found)
         /\ per_file' = (cur :> found) @@ per_file
         /\ IF failed \/ out_dir = "blocked"
            THEN /\ Return(<< >>)
                 /\ UNCHANGED << out_dir, unique_words, base_name, output_path, counter >>
            ELSE /\ out_dir' = IF out_dir = "absent" THEN "present" ELSE out_dir
                 /\ unique_words' = found
                 /\ base_name' = cur.stem
                 /\ output_path' = FirstCandidate(cur.stem)
                 /\ counter' = 1
                 /\ pc' = "probe"
                 /\ UNCHANGED << results, exit_code >>
  /\ UNCHANGED << out_files, pools, runs_left, path_kind, mode, text_files, todo, cur,
                  all_unique_words, successful_files, raised_at, before, out_of,
                  token, verdict >>

\* get_unique_output_path, lines 51-53: one turn of the while loop.
Probe ==
  /\ pc = "probe"
  /\ exists(output_path)
  /\ output_path' = NumberedCandidate(base_name, counter)
  /\ counter' = counter + 1
  /\ UNCHANGED << out_dir, out_files, pools, runs_left, pc, path_kind, mode, text_files,
                  todo, cur, unique_words, base_name, all_unique_words,
                  successful_files, results, exit_code, raised_at, before, per_file,
                  out_of, cur_kind, token, verdict >>

\* process_file, lines 105-112: the loop has ended, the file is written; an
\* error of open() is caught at line 117.
WriteOutput ==
  /\ pc = "probe"
  /\ ~exists(output_path)
  /\ IF out_dir = "readonly"
     THEN /\ Return(<< >>)
          /\ UNCHANGED << out_files, out_of >>
     ELSE /\ out_files' = (output_path :> WrittenText(unique_words)) @@ out_files
          /\ out_of' = (cur :> output_path) @@ out_of
          /\ Return(<< [path |-> output_path,
                        count |-> Cardinality(unique_words),
                        words |-> unique_words] >>)
  /\ UNCHANGED << out_dir, pools, runs_left, path_kind, mode, text_files, todo, cur,
                  unique_words, base_name, output_path, counter, all_unique_words,
                  successful_files, raised_at, before, per_file, cur_kind,
                  token, verdict >>

\* process_directory_separate, lines 242-248: the next file of the list, in
\* whatever order list(set(...)) left it.
SeparateNext ==
  /\ pc = "separate_loop"
  /\ \E f \in todo :
       /\ cur' = f
       /\ todo' = rest_after(todo, f, FALSE)
  /\ pc' = "process_file"
  /\ UNCHANGED << out_dir, out_files, pools, runs_left, path_kind, mode, text_files,
                  unique_words, base_name, output_path, counter, all_unique_words,
                  successful_files, results, exit_code, raised_at, before, per_file,
                  out_of, cur_kind, token, verdict >>

\* process_directory_separate returns (line 260) and main() ends (lines 345-358).
SeparateDone ==
  /\ pc = "separate_loop"
  /\ todo = {}
  /\ pc' = "exited"
  /\ exit_code' = exit_status(results)
  /\ UNCHANGED << out_dir, out_files, pools, runs_left, path_kind, mode, text_files,
                  todo, cur, unique_words, base_name, output_path, counter,
                  all_unique_words, successful_files, results, raised_at, before,
                  per_file, out_of, cur_kind, token, verdict >>

\* process_directory_merged, lines 169-199: the body of the loop for one file.
MergedStep ==
  /\ pc = "merged_loop"
  /\ \E f \in todo, v \in pool :
       LET content == strip(v.text) IN
       \E words \in Cuts(content) :
         LET found == IF v.st = "text" THEN extract_chinese_words(content, words) ELSE {}
             failed == v.st /= "text" \/ content = << >> \/ nothing_extracted(found)
         IN
         /\ cur_kind' = Classify(v, found)
         /\ per_file' = (f :> found) @@ per_file
         /\ todo' = rest_after(todo, f, failed)
         /\ IF ~failed
            THEN /\ all_unique_words' = update(all_unique_words, found)
                 /\ successful_files' = successful_files + 1
            ELSE UNCHANGED << all_unique_words, successful_files >>
  /\ UNCHANGED << out_dir, out_files, pools, runs_left, pc, path_kind, mode, text_files,
                  cur, unique_words, base_name, output_path, counter, results,
                  exit_code, raised_at, before, out_of, token, verdict >>

\* process_directory_merged, lines 201-211: nothing extracted, or the first
\* candidate of the merged output path.
MergedFinish ==
  /\ pc = "merged_loop"
  /\ todo = {}
  /\ IF nothing_extracted(all_unique_words)
     THEN /\ pc' = "exited"
          /\ exit_code' = exit_status(<< >>)
          /\ UNCHANGED << base_name, output_path, counter >>
     ELSE /\ pc' = "merged_probe"
          /\ base_name' = dir_name
          /\ output_path' = MergedFirst(dir_name)
          /\ counter' = 1
          /\ UNCHANGED exit_code
  /\ UNCHANGED << out_dir, out_files, pools, runs_left, path_kind, mode, text_files,
                  todo, cur, unique_words, all_unique_words, successful_files,
                  results, raised_at, before, per_file, out_of, cur_kind,
                  token, verdict >>

\* process_directory_merged, lines 212-214: one turn of the while loop.
MergedProbe ==
  /\ pc = "merged_probe"
  /\ exists(output_path)
  /\ output_path' = MergedNumbered(base_name, counter)
  /\ counter' = counter + 1
  /\ UNCHANGED << out_dir, out_files, pools, runs_left, pc, path_kind, mode, text_files,
                  todo, cur, unique_words, base_name, all_unique_words,
                  successful_files, results, exit_code, raised_at, before, per_file,
                  out_of, cur_kind, token, verdict >>

\* process_directory_merged, lines 216-233, and the end of main(): the write
\* stands outside any try block, so an error of open() ends the process.
MergedWrite ==
  /\ pc = "merged_probe"
  /\ ~exists(output_path)
  /\ pc' = "exited"
  /\ IF out_dir = "readonly"
     THEN /\ raised_at' = "merged_write"
          /\ exit_code' = 1
          /\ UNCHANGED << out_files, results >>
     ELSE /\ out_files' = (output_path :> WrittenText(all_unique_words)) @@ out_files
          /\ results' = << [path |-> output_path,
                            count |-> Cardinality(all_unique_words),
                            words |-> all_unique_words] >>
          /\ exit_code' = exit_status(results')
          /\ UNCHANGED raised_at
  /\ UNCHANGED << out_dir, pools, runs_left, path_kind, mode, text_files, todo, cur,
                  unique_words, base_name, output_path, counter, all_unique_words,
                  successful_files, before, per_file, out_of, cur_kind,
                  token, verdict >>

Next ==
  \/ MainMissing
  \/ MainOther
  \/ MainFile
  \/ MainDir
  \/ ProcessFileRead
  \/ Probe
  \/ WriteOutput
  \/ SeparateNext
  \/ SeparateDone
  \/ MergedStep
  \/ MergedFinish
  \/ MergedProbe
  \/ MergedWrite

\* The output directory as a run may find it: absent, impossible to create,
\* or present (writable or not) with earlier output files in it.
EarlierOutputs ==
  { FirstCandidate("a"), NumberedCandidate("a", 2), MergedFirst(dir_name) }

InitFs(dirs, olds) ==
  /\ out_dir \in dirs
  /\ \E old \in olds :
       out_files = IF out_dir \in {"absent", "blocked"} THEN EmptyFn
                   ELSE [p \in old |-> PreExisting]

InitRun ==
  /\ pc = "start"
  /\ path_kind = "none"
  /\ mode = "none"
  /\ text_files = {}
  /\ todo = {}
  /\ cur = NoFile
  /\ unique_words = {}
  /\ base_name = ""
  /\ output_path = ""
  /\ counter = 0
  /\ all_unique_words = {}
  /\ successful_files = 0
  /\ results = << >>
  /\ exit_code = -1
  /\ raised_at = "none"
  /\ before = out_files
  /\ per_file = EmptyFn
  /\ out_of = EmptyFn
  /\ cur_kind = "none"

\* One invocation of main() on any input, from an output directory in any state.
Init ==
  /\ InitFs({"absent", "present", "readonly", "blocked"},
            { {}, {FirstCandidate("a")}, {FirstCandidate("a"), MergedFirst(dir_name)} })
  /\ pools = [r \in {1} |-> RichPool]
  /\ runs_left = 1
  /\ InitRun
  /\ token = << >>
  /\ verdict = "none"

Spec == Init /\ [][Next]_vars

\* Successive invocations of main() against the same output directory.
InitRuns ==
  /\ InitFs({"absent", "present", "readonly", "blocked"}, SUBSET EarlierOutputs)
  /\ pools = [r \in 1..MaxRuns |-> RunPool(r)]
  /\ runs_left = MaxRuns
  /\ InitRun
  /\ token = << >>
  /\ verdict = "none"

SpecRuns == InitRuns /\ [][Next]_vars

\* The same, with what a running process guarantees: a loop under way takes
\* its next turn, and the statement after it is executed.
FairRuns ==
  /\ SpecRuns
  /\ WF_vars(Probe \/ WriteOutput)
  /\ WF_vars(MergedProbe \/ MergedWrite)

(***************************************************************************)
(* The token filter on its own: any token, then is_chinese_word.           *)
(***************************************************************************)
\* Line feed, space, a, ideographic space, and both sides of every range end.
FilterAlphabet ==
  { 10, 32, 97, 12288, 13311, 13312, 19903, 19904, 19967, 19968, 40959, 40960,
    131071, 131072, 173791, 173792 }

Tokens == UNION {[1..n -> FilterAlphabet] : n \in 0..MaxTokenLen}

InitFilter ==
  /\ out_dir = "absent"
  /\ out_files = EmptyFn
  /\ pools = << >>
  /\ runs_left = 0
  /\ InitRun
  /\ token \in Tokens
  /\ verdict = "none"

ApplyFilter ==
  /\ verdict = "none"
  /\ verdict' = IF is_chinese_word(token) THEN "accepted" ELSE "rejected"
  /\ UNCHANGED << out_dir, out_files, pools, runs_left, pc, path_kind, mode, text_files,
                  todo, cur, unique_words, base_name, output_path, counter,
                  all_unique_words, successful_files, results, exit_code, raised_at,
                  before, per_file, out_of, cur_kind, token >>

SpecFilter == InitFilter /\ [][ApplyFilter]_vars

(***************************************************************************)
(* What the specification says, in its own terms.                          *)
(***************************************************************************)
\* A pure-Chinese token: not empty, every character U+4E00..U+9FFF,
\* U+3400..U+4DBF or U+20000..U+2A6DF.
PureChinese(t) ==
  /\ Len(t) >= 1
  /\ \A i \in 1..Len(t) :
       \/ t[i] \in 19968..40959
       \/ t[i] \in 13312..19903
       \/ t[i] \in 131072..173791

\* The lines of a text: the pieces between its line feeds.
RECURSIVE SplitLines(_)
SplitLines(text) ==
  LET ends == {i \in 1..Len(text) : text[i] = 10} IN
    IF text = << >> THEN << >>
    ELSE IF ends = {} THEN <<text>>
    ELSE <<SubSeq(text, 1, SetMin(ends) - 1)>>
           \o SplitLines(SubSeq(text, SetMin(ends) + 1, Len(text)))

\* The files of the output directory this run of main() created or changed.
WrittenNow ==
  {p \in DOMAIN out_files : p \notin DOMAIN before \/ out_files[p] /= before[p]}

\* The n-th candidate of an output path: unsuffixed, then _1, _2, ...
Candidate(family, n) ==
  IF n = 0 THEN family \o "_segmented.txt"
  ELSE family \o "_segmented_" \o str(n) \o ".txt"

\* {base} of a single file, {dir}_merged of a merged run.
Family == IF mode = "merged" THEN dir_name \o "_merged" ELSE cur.stem

\* No suffix of the model goes beyond this: 2 in an earlier output, then at
\* most three files a run.
IndexBound == 3 + 3 * MaxRuns

Exited == pc = "exited"

\* C1: is_chinese_word(T) is true if and only if T is not empty and every
\* character of T lies in one of the three ranges.
FilterMatchesRanges ==
  verdict /= "none" => ((verdict = "accepted") <=> PureChinese(token))

\* C2: no step of any run removes or changes a file the output directory
\* already holds; a write only adds a path that did not exist.
ExistingFilesKept ==
  [][\A p \in DOMAIN out_files :
       p \in DOMAIN out_files' /\ out_files'[p] = out_files[p]]_vars

ExistingFilesKeptWitness ==
  /\ Exited
  /\ \E p \in DOMAIN before : before[p] = PreExisting
  /\ \E p \in DOMAIN before : before[p] /= PreExisting
  /\ \E p \in DOMAIN out_files : p \notin DOMAIN before

\* C3: every file written holds one word a line, the lines strictly ascending
\* by code point (so no word twice), every line a pure-Chinese token.
OutputsSortedAndPure ==
  \A p \in WrittenNow :
    LET text == out_files[p]
        lines == SplitLines(text)
    IN
    /\ text /= << >>
    /\ text[Len(text)] = 10
    /\ \A i \in 1..Len(lines) : PureChinese(lines[i])
    /\ \A i \in 1..Len(lines), j \in 1..Len(lines) :
         i < j => StrLess(lines[i], lines[j])

OutputsSortedAndPureWitness ==
  /\ Exited
  /\ \E p \in WrittenNow :
       /\ Len(SplitLines(out_files[p])) >= 3
       /\ \E i \in 1..2 :
            Len(SplitLines(out_files[p])[i]) > Len(SplitLines(out_files[p])[i + 1])

\* C4: in merged mode the words written and returned are the union, over the
\* discovered files, of the words each file yields alone, whatever the order.
MergedIsUnion ==
  (Exited /\ mode = "merged" /\ results /= << >>) =>
    LET union == UNION {per_file[f] : f \in DOMAIN per_file} IN
    /\ DOMAIN per_file = text_files
    /\ Len(results) = 1
    /\ results[1].words = union
    /\ results[1].count = Cardinality(union)
    /\ results[1].path \in DOMAIN out_files
    /\ {SplitLines(out_files[results[1].path])[i] :
          i \in 1..Len(SplitLines(out_files[results[1].path]))} = union

MergedIsUnionWitness ==
  /\ Exited /\ mode = "merged" /\ results /= << >>
  /\ \E f \in text_files, g \in text_files :
       /\ per_file[f] \cap per_file[g] /= {}
       /\ per_file[f] \ per_file[g] /= {}
       /\ per_file[g] \ per_file[f] /= {}
  /\ \E f \in text_files : per_file[f] = {}

\* C5, as claimed: exit code 1 exactly when the path is missing, the single
\* file fails, or the directory yields no result; 0 otherwise.
ExitCodeAsClaimed ==
  Exited =>
    /\ exit_code \in {0, 1}
    /\ exit_code = 1 <=>
         \/ path_kind = "missing"
         \/ (path_kind = "file" /\ results = << >>)
         \/ (path_kind = "dir" /\ raised_at = "none" /\ results = << >>)

\* C5, amended: exit code 1 exactly when the path is missing, the path is
\* neither a file nor a directory, the single file fails, the directory yields
\* no result, or directory processing ends in an uncaught exception.
ExitCodeAmended ==
  Exited =>
    /\ exit_code \in {0, 1}
    /\ exit_code = 1 <=>
         \/ path_kind = "missing"
         \/ path_kind = "other"
         \/ (path_kind = "file" /\ results = << >>)
         \/ (path_kind = "dir" /\ raised_at = "none" /\ results = << >>)
         \/ (path_kind = "dir" /\ raised_at /= "none")

ExitCodeWitness ==
  Exited /\ path_kind = "other" /\ exit_code = 1

\* C6: a directory run never ends on a file's error: every discovered file is
\* processed, and the result holds what every file without error contributes.
BatchNeverAborts ==
  (Exited /\ path_kind = "dir" /\ text_files /= {}) =>
    /\ raised_at = "ensure_output_dir" => per_file = EmptyFn
    /\ raised_at /= "ensure_output_dir" => DOMAIN per_file = text_files
    /\ raised_at = "merged_write" => todo = {}
    /\ (raised_at = "none" /\ mode = "merged") =>
         \A f \in text_files :
           per_file[f] \subseteq (IF results = << >> THEN {} ELSE results[1].words)
    /\ (raised_at = "none" /\ mode = "separate" /\ out_dir = "present") =>
         \A f \in text_files :
           per_file[f] /= {} =>
             \E i \in 1..Len(results) :
               /\ results[i].words = per_file[f]
               /\ f \in DOMAIN out_of
               /\ results[i].path = out_of[f]

BatchNeverAbortsWitness ==
  /\ Exited /\ path_kind = "dir" /\ raised_at = "none" /\ results /= << >>
  /\ cur_kind = "ok"
  /\ Cardinality({f \in text_files : per_file[f] = {}}) >= 1
  /\ Cardinality({f \in text_files : per_file[f] /= {}}) >= 2

\* C7: process_file on a file that is blank, not UTF-8 or without a Chinese
\* token returns nothing and creates no file; alone, main() then exits 1.
FailedFileLeavesNothing ==
  cur_kind \in {"empty", "undecodable", "no_words"} =>
    /\ (mode = "single" /\ Exited) =>
         results = << >> /\ out_files = before /\ exit_code = 1
    /\ (mode = "separate" /\ pc = "separate_loop") =>
         /\ cur \notin DOMAIN out_of
         /\ Cardinality(WrittenNow) = Len(results)

FailedFileLeavesNothingWitness ==
  /\ mode = "single" /\ Exited /\ cur_kind = "no_words"
  /\ before /= EmptyFn

\* C8: no exception leaves process_file, process_directory,
\* process_directory_merged or process_directory_separate.
NoErrorEscapes == raised_at = "none"

\* C9: in separate mode each file processed with success has one new output
\* file of its own, and the result list one entry for each such file.
SeparateOutputsDistinct ==
  (mode = "separate" /\ pc \in {"separate_loop", "exited"}) =>
    /\ Len(results) = Cardinality(DOMAIN out_of)
    /\ \A i \in 1..Len(results), j \in 1..Len(results) :
         i /= j => results[i].path /= results[j].path
    /\ {results[i].path : i \in 1..Len(results)} = {out_of[f] : f \in DOMAIN out_of}
    /\ \A f \in DOMAIN out_of, g \in DOMAIN out_of : f /= g => out_of[f] /= out_of[g]
    /\ \A f \in DOMAIN out_of : out_of[f] \notin DOMAIN before
    /\ WrittenNow = {out_of[f] : f \in DOMAIN out_of}
    /\ Exited =>
         DOMAIN out_of = {f \in text_files : f \in DOMAIN per_file
                                              /\ per_file[f] /= {}
                                              /\ out_dir = "present"}

SeparateOutputsDistinctWitness ==
  /\ mode = "separate" /\ Exited
  /\ before /= EmptyFn
  /\ \E f \in DOMAIN out_of, g \in DOMAIN out_of, h \in DOMAIN out_of :
       /\ f.ext /= g.ext /\ f.stem = g.stem
       /\ f.sub /= h.sub /\ f.stem = h.stem /\ f.ext = h.ext

\* Candidates of the family at or after the one being probed that exist.
Waiting ==
  Cardinality({n \in (counter - 1)..IndexBound :
                 n >= 0 /\ Candidate(Family, n) \in DOMAIN out_files})

ChosenIsLeast ==
  \A p \in DOMAIN out_files' \ DOMAIN out_files :
    LET free == {n \in 0..Cardinality(DOMAIN out_files) :
                   Candidate(Family, n) \notin DOMAIN out_files}
    IN  p = Candidate(Family, SetMin(free))

ProbeProgress ==
  (pc \in {"probe", "merged_probe"} /\ pc' = pc) => Waiting' < Waiting

\* From an output directory that began empty: the suffixes in use have no gap,
\* and a higher suffix was written no earlier than a lower one.
NoGaps ==
  (\A p \in DOMAIN out_files : out_files[p] /= PreExisting) =>
    \A family \in {"a", dir_name \o "_merged"}, n \in 1..IndexBound :
      Candidate(family, n) \in DOMAIN out_files =>
        /\ Candidate(family, n - 1) \in DOMAIN out_files
        /\ out_files[Candidate(family, n)][1] <= out_files[Candidate(family, n - 1)][1]

\* C10: the path written is the unsuffixed name when free, else the name with
\* the least free suffix N >= 1; successive runs from an empty directory use
\* the unsuffixed name, then _1, _2, ... in that order; every turn of the
\* probing loop leaves fewer existing candidates ahead, and the loop ends.
SuffixIsLeastFree ==
  /\ []NoGaps
  /\ [][ChosenIsLeast /\ ProbeProgress]_vars
  /\ (pc \in {"probe", "merged_probe"}) ~> (pc \notin {"probe", "merged_probe"})

SuffixIsLeastFreeWitness ==
  /\ Exited /\ runs_left = 0
  /\ \A p \in DOMAIN out_files : out_files[p] /= PreExisting
  /\ Candidate("a", 1) \in DOMAIN out_files
  /\ out_files[Candidate("a", 1)] /= out_files[Candidate("a", 0)]

====
